---- MODULE Spec2Model ----
(***************************************************************************)
(* A model of the Requiem client (src/requiem/core/client.py): plugin      *)
(* loading at startup, the gateway event handlers, the per-guild settings  *)
(* cache in front of the Guilds table, and the error reporting path.       *)
(*                                                                         *)
(* Every handler is a coroutine.  A task runs one handler; it can be       *)
(* suspended at each await that reaches the event loop (a cache call, a    *)
(* storage call, a send), so each such await is one step of the model and  *)
(* the code between two awaits is part of the step that follows the first. *)
(***************************************************************************)
EXTENDS Integers, Sequences, FiniteSets, TLC

-----------------------------------------------------------------------------
(* Bounds of the model.                                                    *)

\* Event-handler tasks that can be in flight at the same time.
NumProcs == 2
\* Guild ids the gateway delivers events for.
NumGuilds == 1
\* Longest directory listing os.listdir("plugins") returns.
MaxListing == 3
\* Most configured owner ids.
NumOwners == 2

-----------------------------------------------------------------------------
(* Values.                                                                 *)

\* The task that runs start(); the event-handler tasks are 1..NumProcs.
StartTask == 0
Procs == 1..NumProcs
\* The one task of the executions in which no two handlers overlap.
SeqProcs == {1}
\* The task that runs close().
CloseTask == NumProcs + 1
Tasks == {StartTask, CloseTask} \cup Procs

Guilds == 1..NumGuilds
\* message.guild of a direct message (None).
NoGuild == 0

\* credentials.default_prefix, which is also self.command_prefix.
command_prefix == "?"
Prefixes == {command_prefix, "!"}

\* constants.colours: colour name -> constructor of the concrete colour.
colours == [purple |-> "0x71368a", blue |-> "0x3498db"]
ColourNames == DOMAIN colours

\* Python's None and a present value v.
None == <<>>
Some(v) == <<v>>

\* self.user.id, and the two spellings of a mention of the bot.
BotId == "7"
UserMention == "<@" \o BotId \o ">"
NickMention == "<@!" \o BotId \o ">"
bot_mentions == {UserMention, "<@!" \o BotId \o ">"}

\* Message bodies: both mentions, a mention followed by a command, and a
\* prefixed command.
Contents == {UserMention, NickMention, UserMention \o " ping", "?ping"}

\* Entries of the plugins directory, as the pieces str.replace works on.
DirEntries ==
    { <<"__init__", ".py">>, <<"__pycache__">>,
      <<"a", ".py">>, <<"b", ".py">>, <<"c", ".py">> }

RECURSIVE Join(_)
\* The string a sequence of pieces spells.
Join(pieces) ==
    IF pieces = <<>> THEN "" ELSE Head(pieces) \o Join(Tail(pieces))

\* str.replace(".py", ""): every occurrence of the piece is dropped.
Replace(pieces, old) == SelectSeq(pieces, LAMBDA x : x # old)

RECURSIVE plugins(_)
\* The generator of start(): the listing without the reserved names, each
\* remaining name with ".py" removed.
plugins(entries) ==
    IF entries = <<>>
    THEN <<>>
    ELSE LET plugin == Head(entries)
             rest == plugins(Tail(entries))
         IN  IF Join(plugin) \notin {"__init__.py", "__pycache__"}
             THEN <<Join(Replace(plugin, ".py"))>> \o rest
             ELSE rest

\* Sequences over S without repetition, of length at most n.
InjSeqs(S, n) ==
    UNION { { s \in [1..k -> S] : \A i, j \in 1..k : i # j => s[i] # s[j] }
            : k \in 0..n }

Range(s) == { s[i] : i \in DOMAIN s }

Owners == 1..NumOwners

-----------------------------------------------------------------------------
VARIABLES
    \* configuration (self.credentials, self.owner_ids) and the environment
    prefix_on_mention,  \* credentials.prefix_on_mention
    report_errors,      \* credentials.report_errors
    owner_ids,          \* self.owner_ids
    listdir,            \* what os.listdir("plugins") returns
    failing,            \* the extensions whose load raises
    \* the client
    cache,              \* self.cache: guild id -> dict
    db,                 \* the rows of models.Guilds
    extensions,         \* the extensions load_extension has registered
    attempted,          \* the load_extension calls made so far, in order
    connected,          \* super().start() has opened the gateway
    connections_open,   \* the connections of tortoise.Tortoise are open
    \* the tasks
    pc,                 \* task -> where it stands
    ev,                 \* task -> the event (handler and arguments) it runs
    loc,                \* task -> the handler's local variables
    obs                 \* task -> the calls the handler has made so far

config == <<prefix_on_mention, report_errors, owner_ids, listdir, failing>>
client == <<cache, db, extensions, attempted, connected, connections_open>>
tasks == <<pc, ev, loc, obs>>
vars == <<config, client, tasks>>

-----------------------------------------------------------------------------
(* The state after construction.                                           *)

\* A task that runs nothing.
NoEvent == [op |-> "none", guild |-> NoGuild, content |-> "", before |-> "", exc |-> ""]
NoLocals ==
    [message |-> "", prefix |-> "", colour |-> "", saved |-> None, created |-> FALSE,
     data |-> None, response |-> "", todo |-> {}, i |-> 1, raised |-> ""]
NoCalls ==
    [sent |-> <<>>, reports |-> <<>>, logged |-> <<>>, parsed |-> 0, gets |-> 0,
     adds |-> 0, dms |-> <<>>]

\* The rows of the Guilds table: snowflake is its key.
Rows == [snowflake : Guilds, prefix : Prefixes, colour : ColourNames]
Tables == { t \in SUBSET Rows : \A r, q \in t : r.snowflake = q.snowflake => r = q }

\* __init__: an empty memory cache, nothing loaded, no connection to the
\* gateway; the storage connections were opened before the client was built.
InitClient ==
    /\ cache = <<>>
    /\ extensions = {}
    /\ attempted = <<>>
    /\ connected = FALSE
    /\ connections_open = TRUE
    /\ pc = [t \in Tasks |-> IF t = StartTask THEN "start" ELSE "idle"]
    /\ ev = [t \in Tasks |->
                CASE t = StartTask -> [NoEvent EXCEPT !.op = "start"]
                  [] t = CloseTask -> [NoEvent EXCEPT !.op = "close"]
                  [] OTHER -> NoEvent]
    /\ loc = [t \in Tasks |-> NoLocals]
    /\ obs = [t \in Tasks |-> NoCalls]

-----------------------------------------------------------------------------
(* report_error.                                                           *)

\* What awaiting owner.send(file=file) can end in: delivered, or one of the
\* exceptions the gateway client raises for a failed request.
SendOutcomes == {"delivered", "Forbidden", "NotFound", "HTTPException"}
\* contextlib.suppress(discord.Forbidden, discord.NotFound)
Suppressed == {"Forbidden", "NotFound"}

\* What self.get_user(owner_id) can return: it reads the client's user
\* cache, which the gateway fills; before the gateway is open it is empty.
get_user(owner_id) == IF connected THEN {TRUE, FALSE} ELSE {FALSE}

\* Where a task goes on when report_error returns to its caller.
AfterReport(t) ==
    CASE ev[t].op = "start" -> "start"
      [] ev[t].op = "on_command_error" -> "ce_send"
      [] OTHER -> "done"

\* Lines 136-143: log, stop if reporting is disabled, else format the report.
ReportError(t) ==
    /\ pc[t] = "report_error"
    /\ obs' = [obs EXCEPT ![t].logged = Append(@, obs[t].reports[Len(obs[t].reports)])]
    /\ loc' = [loc EXCEPT ![t].todo = IF report_errors THEN owner_ids ELSE {}]
    /\ pc' = [pc EXCEPT ![t] = "re_owners"]
    /\ UNCHANGED <<config, client, ev>>

\* Lines 145-148: one round of the loop over self.owner_ids.
ReportDeliver(t) ==
    /\ pc[t] = "re_owners"
    /\ IF loc[t].todo = {}
       THEN /\ pc' = [pc EXCEPT ![t] = AfterReport(t)]
            /\ UNCHANGED <<loc, obs>>
       ELSE \E owner_id \in loc[t].todo : \E owner \in get_user(owner_id) :
            \E out \in IF owner THEN SendOutcomes ELSE {"skipped"} :
            /\ LET failed == owner /\ out \notin Suppressed \cup {"delivered"}
               IN  /\ pc' = [pc EXCEPT ![t] = IF failed THEN "raised" ELSE @]
                   /\ loc' = [loc EXCEPT ![t].todo = @ \ {owner_id},
                                         ![t].raised = IF failed THEN out ELSE @]
            /\ obs' = [obs EXCEPT ![t].dms =
                         Append(@, [owner_id |-> owner_id, outcome |-> out])]
    /\ UNCHANGED <<config, client, ev>>

-----------------------------------------------------------------------------
(* start.                                                                  *)

\* self.load_extension: registers the extension, or raises.
load_extension(name) ==
    IF name \in failing
    THEN [raised |-> TRUE, extensions |-> extensions]
    ELSE [raised |-> FALSE, extensions |-> extensions \cup {name}]

\* start with the try around the whole loop: the first failing load ends it.
StartLoad_try_around_loop ==
    /\ pc[StartTask] = "start"
    /\ loc[StartTask].i <= Len(plugins(listdir))
    /\ LET plugin == plugins(listdir)[loc[StartTask].i]
           res == load_extension(plugin)
       IN  /\ attempted' = Append(attempted, plugin)
           /\ extensions' = res.extensions
           /\ IF res.raised
              THEN /\ loc' = [loc EXCEPT ![StartTask].i = Len(plugins(listdir)) + 1]
                   /\ pc' = [pc EXCEPT ![StartTask] = "report_error"]
                   /\ obs' = [obs EXCEPT ![StartTask].reports = Append(@, plugin)]
              ELSE /\ loc' = [loc EXCEPT ![StartTask].i = @ + 1]
                   /\ UNCHANGED <<pc, obs>>
    /\ UNCHANGED <<config, cache, db, connected, connections_open, ev>>

\* Lines 65-71: one round of the loop over the plugins; line 73 when the
\* generator is exhausted is StartConnect.
StartLoad ==
    /\ pc[StartTask] = "start"
    /\ loc[StartTask].i <= Len(plugins(listdir))
    /\ LET plugin == plugins(listdir)[loc[StartTask].i]
           res == load_extension(plugin)
       IN  /\ attempted' = Append(attempted, plugin)
           /\ extensions' = res.extensions
           /\ loc' = [loc EXCEPT ![StartTask].i = @ + 1]
           /\ IF res.raised
              THEN /\ pc' = [pc EXCEPT ![StartTask] = "report_error"]
                   /\ obs' = [obs EXCEPT ![StartTask].reports = Append(@, plugin)]
              ELSE UNCHANGED <<pc, obs>>
    /\ UNCHANGED <<config, cache, db, connected, connections_open, ev>>

\* A start that opens the gateway before it has gone through the plugins.
StartConnect_before_plugins ==
    /\ pc[StartTask] = "start"
    /\ ~connected
    /\ connected' = TRUE
    /\ UNCHANGED <<config, cache, db, extensions, attempted, connections_open, tasks>>

\* Line 73: super().start() logs in and opens the gateway connection.
StartConnect ==
    /\ pc[StartTask] = "start"
    /\ loc[StartTask].i > Len(plugins(listdir))
    /\ connected' = TRUE
    /\ pc' = [pc EXCEPT ![StartTask] = "running"]
    /\ UNCHANGED <<config, cache, db, extensions, attempted, connections_open, ev, loc, obs>>

-----------------------------------------------------------------------------
(* close.                                                                  *)

\* Lines 79-80: log, and call super().close().
Close ==
    /\ pc[CloseTask] = "idle"
    /\ pc[StartTask] = "running"
    /\ pc' = [pc EXCEPT ![CloseTask] = "super_close"]
    /\ UNCHANGED <<config, client, ev, loc, obs>>

\* Line 80: super().close() returns when the gateway connection is closed.
SuperClose ==
    /\ pc[CloseTask] = "super_close"
    /\ connected' = FALSE
    /\ pc' = [pc EXCEPT ![CloseTask] = "close_connections"]
    /\ UNCHANGED <<config, cache, db, extensions, attempted, connections_open, ev, loc, obs>>

\* A close that releases the storage while super().close() is under way.
CloseConnections_during_super_close ==
    /\ pc[CloseTask] = "super_close"
    /\ connections_open
    /\ connections_open' = FALSE
    /\ UNCHANGED <<config, cache, db, extensions, attempted, connected, tasks>>

\* Line 81: tortoise.Tortoise.close_connections().
CloseConnections ==
    /\ pc[CloseTask] = "close_connections"
    /\ connections_open' = FALSE
    /\ pc' = [pc EXCEPT ![CloseTask] = "closed"]
    /\ UNCHANGED <<config, cache, db, extensions, attempted, connected, ev, loc, obs>>

-----------------------------------------------------------------------------
(* The settings cache and the Guilds table.                                *)

\* A Cache.get that stores the default under the key on a miss.
cache_get_populating(c, key, default) ==
    [value |-> IF key \in DOMAIN c THEN Some(c[key]) ELSE default,
     cache |-> IF key \notin DOMAIN c /\ default # None
               THEN c @@ (key :> default[1]) ELSE c]

\* Cache.get(key, default=...): the stored value, or the default on a miss.
\* It returns the value and the cache it leaves behind.
cache_get(c, key, default) ==
    [value |-> IF key \in DOMAIN c THEN Some(c[key]) ELSE default, cache |-> c]

\* Cache.add(key, value): stores under a key that is not there; raises
\* ValueError under a key that is.
cache_add(c, key, value) ==
    IF key \in DOMAIN c
    THEN [raised |-> "ValueError", cache |-> c]
    ELSE [raised |-> "", cache |-> c @@ (key :> value)]

\* A test that takes every value read for a miss.
Truthy_never(data) == FALSE

\* Truth value of what Cache.get returned: None and the empty dict are false.
Truthy(data) == data # None /\ DOMAIN data[1] # {}

\* The column default a new row's colour gets: one name of the enumeration.
DefaultColours == ColourNames

\* Guilds.get_or_create(defaults=..., snowflake=...): the row with that key
\* and False, or a new row built from the defaults and True.
get_or_create(table, defaults, snowflake) ==
    IF \E r \in table : r.snowflake = snowflake
    THEN { [saved |-> r, created |-> FALSE, table |-> table] :
             r \in { q \in table : q.snowflake = snowflake } }
    ELSE { [saved |-> r, created |-> TRUE, table |-> table \cup {r}] :
             r \in { [snowflake |-> snowflake, prefix |-> defaults.prefix, colour |-> c] :
                       c \in DefaultColours } }

\* Lines 102-108.  guild = NoGuild is a message without a guild.
get_string_prefix(c, guild) ==
    IF guild # NoGuild
    THEN LET got == cache_get(c, guild, Some([prefix |-> command_prefix]))
             data == got.value[1]
         IN  IF "prefix" \in DOMAIN data
             THEN [raised |-> "", value |-> data["prefix"], cache |-> got.cache, gets |-> 1]
             ELSE [raised |-> "KeyError", value |-> "", cache |-> got.cache, gets |-> 1]
    ELSE [raised |-> "", value |-> command_prefix, cache |-> c, gets |-> 0]

\* get_colour with the default of get_string_prefix left in place.
get_colour_prefix_default(c, guild) ==
    IF guild # NoGuild
    THEN LET got == cache_get(c, guild, Some([prefix |-> command_prefix]))
             data == got.value[1]
         IN  IF "colour" \in DOMAIN data /\ data["colour"] \in DOMAIN colours
             THEN [raised |-> "", value |-> colours[data["colour"]], cache |-> got.cache,
                   gets |-> 1]
             ELSE [raised |-> "KeyError", value |-> "", cache |-> got.cache, gets |-> 1]
    ELSE [raised |-> "", value |-> colours["purple"], cache |-> c, gets |-> 0]

\* Lines 114-120.
get_colour(c, guild) ==
    IF guild # NoGuild
    THEN LET got == cache_get(c, guild, Some([colour |-> "purple"]))
             data == got.value[1]
         IN  IF "colour" \in DOMAIN data /\ data["colour"] \in DOMAIN colours
             THEN [raised |-> "", value |-> colours[data["colour"]], cache |-> got.cache,
                   gets |-> 1]
             ELSE [raised |-> "KeyError", value |-> "", cache |-> got.cache, gets |-> 1]
    ELSE [raised |-> "", value |-> colours["purple"], cache |-> c, gets |-> 0]

-----------------------------------------------------------------------------
(* Events.                                                                 *)

MessageGuilds == {NoGuild} \cup Guilds

\* What the gateway, or a plugin calling into the client, can ask a task to run.
MessageEvents(contents, befores) ==
    { [NoEvent EXCEPT !.op = "on_message", !.guild = g, !.content = m] :
        g \in MessageGuilds, m \in contents }
    \cup
    { [NoEvent EXCEPT !.op = "on_message_edit", !.guild = g, !.content = m, !.before = b] :
        g \in MessageGuilds, m \in contents, b \in befores }
LookupEvents ==
    { [NoEvent EXCEPT !.op = o, !.guild = g] :
        o \in {"get_string_prefix", "get_colour"}, g \in MessageGuilds }
GuildEvents ==
    { [NoEvent EXCEPT !.op = o, !.guild = g] :
        o \in {"on_guild_join", "on_guild_available"}, g \in Guilds }

\* A task that is free takes up an event; events arrive once the gateway is open.
Dispatch(p, events) ==
    /\ connected
    /\ pc[p] \in {"idle", "done", "raised"}
    /\ \E e \in events :
         /\ ev' = [ev EXCEPT ![p] = e]
         /\ pc' = [pc EXCEPT ![p] = e.op]
         /\ loc' = [loc EXCEPT ![p] =
                      [NoLocals EXCEPT !.message = IF e.op = "on_message" THEN e.content ELSE ""]]
         /\ obs' = [obs EXCEPT ![p] = NoCalls]
    /\ UNCHANGED <<config, client>>

-----------------------------------------------------------------------------
(* on_message, on_message_edit, state_prefix.                              *)

\* on_message with the else of line 204 bound to the if of line 201.
route_else_of_inner_if(content) ==
    IF content \in bot_mentions /\ prefix_on_mention
    THEN "state_prefix"
    ELSE "process_commands"

\* Lines 198-205: what on_message does with a message body.  The else of
\* line 204 belongs to the if of line 200.
route(content) ==
    IF content \in bot_mentions
    THEN IF prefix_on_mention THEN "state_prefix" ELSE "done"
    ELSE "process_commands"

\* Lines 198-205, up to the first await of the branch taken.
OnMessage(p) ==
    /\ pc[p] = "on_message"
    /\ pc' = [pc EXCEPT ![p] = route(loc[p].message)]
    /\ obs' = [obs EXCEPT ![p].parsed =
                 IF route(loc[p].message) = "process_commands" THEN @ + 1 ELSE @]
    /\ UNCHANGED <<config, client, ev, loc>>

\* on_message_edit handing the message as it was before the edit to on_message.
OnMessageEdit_before(p) ==
    /\ pc[p] = "on_message_edit"
    /\ loc' = [loc EXCEPT ![p].message = ev[p].before]
    /\ pc' = [pc EXCEPT ![p] = "on_message"]
    /\ UNCHANGED <<config, client, ev, obs>>

\* Line 211: on_message(message_edit).
OnMessageEdit(p) ==
    /\ pc[p] = "on_message_edit"
    /\ loc' = [loc EXCEPT ![p].message = ev[p].content]
    /\ pc' = [pc EXCEPT ![p] = "on_message"]
    /\ UNCHANGED <<config, client, ev, obs>>

\* Where a task goes on after get_string_prefix returns: line 127 in
\* state_prefix, line 88 (through get_prefix, line 95) in get_context.
AfterPrefix(at) ==
    CASE at = "state_prefix" -> "sp_colour"
      [] at = "process_commands" -> "get_context"
      [] OTHER -> "done"

\* Where a task goes on after get_colour returns: line 128 in state_prefix.
AfterColour(at) ==
    CASE at = "sp_colour" -> "sp_send"
      [] OTHER -> "done"

\* await self.get_string_prefix(message): lines 126, 95 and a direct call.
GetStringPrefix(p) ==
    /\ pc[p] \in {"state_prefix", "process_commands", "get_string_prefix"}
    /\ LET r == get_string_prefix(cache, ev[p].guild)
       IN  /\ cache' = r.cache
           /\ obs' = [obs EXCEPT ![p].gets = @ + r.gets]
           /\ loc' = [loc EXCEPT ![p].prefix = r.value, ![p].raised = r.raised]
           /\ pc' = [pc EXCEPT ![p] = IF r.raised # "" THEN "raised" ELSE AfterPrefix(@)]
    /\ UNCHANGED <<config, db, extensions, attempted, connected, connections_open, ev>>

\* await self.get_colour(message): lines 127, 88 and a direct call.
GetColour(p) ==
    /\ pc[p] \in {"sp_colour", "get_context", "get_colour"}
    /\ LET r == get_colour(cache, ev[p].guild)
       IN  /\ cache' = r.cache
           /\ obs' = [obs EXCEPT ![p].gets = @ + r.gets]
           /\ loc' = [loc EXCEPT ![p].colour = r.value, ![p].raised = r.raised]
           /\ pc' = [pc EXCEPT ![p] = IF r.raised # "" THEN "raised" ELSE AfterColour(@)]
    /\ UNCHANGED <<config, db, extensions, attempted, connected, connections_open, ev>>

\* Lines 128-130: build the response and send it to the message's channel.
StatePrefixSend(p) ==
    /\ pc[p] = "sp_send"
    /\ obs' = [obs EXCEPT ![p].sent =
                 Append(@, [kind |-> "state_prefix", prefix |-> loc[p].prefix,
                            colour |-> loc[p].colour])]
    /\ pc' = [pc EXCEPT ![p] = "done"]
    /\ UNCHANGED <<config, client, ev, loc>>

-----------------------------------------------------------------------------
(* on_guild_join, on_guild_available.                                      *)

\* Line 233: on_guild_join(guild).
OnGuildAvailable(p) ==
    /\ pc[p] = "on_guild_available"
    /\ pc' = [pc EXCEPT ![p] = "on_guild_join"]
    /\ UNCHANGED <<config, client, ev, loc, obs>>

\* Lines 217-219.  On connections that have been closed the query raises.
GuildGetOrCreate(p) ==
    /\ pc[p] = "on_guild_join"
    /\ IF connections_open
       THEN /\ \E r \in get_or_create(db, [prefix |-> command_prefix], ev[p].guild) :
                 /\ db' = r.table
                 /\ loc' = [loc EXCEPT ![p].saved = Some(r.saved), ![p].created = r.created]
            /\ pc' = [pc EXCEPT ![p] = "gj_get"]
       ELSE /\ db' = db
            /\ loc' = [loc EXCEPT ![p].raised = "OperationalError"]
            /\ pc' = [pc EXCEPT ![p] = "raised"]
    /\ UNCHANGED <<config, cache, extensions, attempted, connected, connections_open, ev, obs>>

\* Lines 220-225: read the cache, and decide whether to seed it.
GuildCacheGet(p) ==
    /\ pc[p] = "gj_get"
    /\ LET got == cache_get(cache, ev[p].guild, None)
       IN  /\ cache' = got.cache
           /\ loc' = [loc EXCEPT ![p].data = got.value]
           /\ pc' = [pc EXCEPT ![p] = IF Truthy(got.value) THEN "done" ELSE "gj_add"]
    /\ obs' = [obs EXCEPT ![p].gets = @ + 1]
    /\ UNCHANGED <<config, db, extensions, attempted, connected, connections_open, ev>>

\* on_guild_join seeding the cache with the record's prefix alone.
GuildCacheAdd_prefix_only(p) ==
    /\ pc[p] = "gj_add"
    /\ LET data == [prefix |-> loc[p].saved[1].prefix]
           r == cache_add(cache, ev[p].guild, data)
       IN  /\ cache' = r.cache
           /\ loc' = [loc EXCEPT ![p].data = Some(data), ![p].raised = r.raised]
           /\ pc' = [pc EXCEPT ![p] = IF r.raised # "" THEN "raised" ELSE "done"]
    /\ obs' = [obs EXCEPT ![p].adds = @ + 1]
    /\ UNCHANGED <<config, db, extensions, attempted, connected, connections_open, ev>>

\* on_guild_join seeding the cache from the defaults, not from the record.
GuildCacheAdd_defaults(p) ==
    /\ pc[p] = "gj_add"
    /\ LET data == [prefix |-> command_prefix, colour |-> "purple"]
           r == cache_add(cache, ev[p].guild, data)
       IN  /\ cache' = r.cache
           /\ loc' = [loc EXCEPT ![p].data = Some(data), ![p].raised = r.raised]
           /\ pc' = [pc EXCEPT ![p] = IF r.raised # "" THEN "raised" ELSE "done"]
    /\ obs' = [obs EXCEPT ![p].adds = @ + 1]
    /\ UNCHANGED <<config, db, extensions, attempted, connected, connections_open, ev>>

\* Lines 226-227.
GuildCacheAdd(p) ==
    /\ pc[p] = "gj_add"
    /\ LET saved == loc[p].saved[1]
           data == [prefix |-> saved.prefix, colour |-> saved.colour]
           r == cache_add(cache, ev[p].guild, data)
       IN  /\ cache' = r.cache
           /\ loc' = [loc EXCEPT ![p].data = Some(data), ![p].raised = r.raised]
           /\ pc' = [pc EXCEPT ![p] = IF r.raised # "" THEN "raised" ELSE "done"]
    /\ obs' = [obs EXCEPT ![p].adds = @ + 1]
    /\ UNCHANGED <<config, db, extensions, attempted, connected, connections_open, ev>>

-----------------------------------------------------------------------------
(* on_command_error, on_error.                                             *)

\* The classes of discord.ext.commands an error handed to on_command_error
\* can have, each with the classes it inherits from.
mro ==
    [CommandNotFound |-> {"CommandNotFound", "CommandError"},
     CheckFailure |-> {"CheckFailure", "CommandError"},
     NotOwner |-> {"NotOwner", "CheckFailure", "CommandError"},
     CommandInvokeError |-> {"CommandInvokeError", "CommandError"},
     MissingRequiredArgument |-> {"MissingRequiredArgument", "UserInputError", "CommandError"},
     CommandOnCooldown |-> {"CommandOnCooldown", "CommandError"}]
ExcClasses == DOMAIN mro
isinstance(exc, cls) == cls \in mro[exc]

\* The keys of constants.handled_errors.
handled_errors == {"MissingRequiredArgument"}

\* on_command_error without the CheckFailure branch and with every error it
\* does not recognise reported.
classify_reports_unrecognised(exc) ==
    CASE isinstance(exc, "CommandNotFound") -> "return"
      [] exc \in handled_errors -> "handled"
      [] OTHER -> "report"

\* on_command_error treating the errors of the table as invocation errors.
classify_handled_as_invoke(exc) ==
    CASE isinstance(exc, "CommandNotFound") -> "return"
      [] isinstance(exc, "CheckFailure") -> "return"
      [] isinstance(exc, "CommandInvokeError") -> "report"
      [] exc \in handled_errors -> "report"
      [] OTHER -> "return"

\* Lines 160-176: the branch on_command_error takes for an error.
classify(exc) ==
    CASE isinstance(exc, "CommandNotFound") -> "return"
      [] isinstance(exc, "CheckFailure") -> "return"
      [] isinstance(exc, "CommandInvokeError") -> "report"
      [] exc \in handled_errors -> "handled"
      [] OTHER -> "return"

\* discord.Colour.red()
red == "0xe74c3c"

\* Lines 160-176, up to the first await of the branch taken.
OnCommandError(p) ==
    /\ pc[p] = "on_command_error"
    /\ LET branch == classify(ev[p].exc)
       IN  CASE branch = "report" ->
                  /\ obs' = [obs EXCEPT ![p].reports = Append(@, ev[p].exc)]
                  /\ loc' = [loc EXCEPT ![p].response = "unhandled_error"]
                  /\ pc' = [pc EXCEPT ![p] = "report_error"]
             [] branch = "handled" ->
                  /\ obs' = obs
                  /\ loc' = [loc EXCEPT ![p].response = ev[p].exc]
                  /\ pc' = [pc EXCEPT ![p] = "ce_send"]
             [] OTHER ->
                  /\ UNCHANGED <<obs, loc>>
                  /\ pc' = [pc EXCEPT ![p] = "done"]
    /\ UNCHANGED <<config, client, ev>>

\* Lines 178-179: the response, in red, to the invoking context.
CommandErrorSend(p) ==
    /\ pc[p] = "ce_send"
    /\ obs' = [obs EXCEPT ![p].sent =
                 Append(@, [kind |-> IF loc[p].response = "unhandled_error"
                                     THEN "unhandled_error" ELSE "handled_error",
                            prefix |-> loc[p].response, colour |-> red])]
    /\ pc' = [pc EXCEPT ![p] = "done"]
    /\ UNCHANGED <<config, client, ev, loc>>

\* on_error that also answers in a channel, as on_command_error does.
OnError_answering(p) ==
    /\ pc[p] = "on_error"
    /\ obs' = [obs EXCEPT ![p].reports = Append(@, ev[p].exc),
                          ![p].sent = Append(@, [kind |-> "unhandled_error",
                                                 prefix |-> "unhandled_error",
                                                 colour |-> red])]
    /\ pc' = [pc EXCEPT ![p] = "report_error"]
    /\ UNCHANGED <<config, client, ev, loc>>

\* Lines 185-186: the exception being handled goes to report_error.
OnError(p) ==
    /\ pc[p] = "on_error"
    /\ obs' = [obs EXCEPT ![p].reports = Append(@, ev[p].exc)]
    /\ pc' = [pc EXCEPT ![p] = "report_error"]
    /\ UNCHANGED <<config, client, ev, loc>>

\* What an event handler can raise.
HandlerErrors == {"ValueError", "KeyError", "HTTPException"}

ErrorEvents ==
    { [NoEvent EXCEPT !.op = "on_command_error", !.exc = e] : e \in ExcClasses }
    \cup { [NoEvent EXCEPT !.op = "on_error", !.exc = e] : e \in HandlerErrors }

\* The event runner of the gateway client: an exception that leaves an event
\* handler other than on_error is handed to on_error, in the same task.
RunEventExcept(p) ==
    /\ pc[p] = "raised"
    /\ ev[p].op # "on_error"
    /\ ev' = [ev EXCEPT ![p] = [NoEvent EXCEPT !.op = "on_error", !.exc = loc[p].raised]]
    /\ pc' = [pc EXCEPT ![p] = "on_error"]
    /\ loc' = [loc EXCEPT ![p] = NoLocals]
    /\ obs' = [obs EXCEPT ![p] = NoCalls]
    /\ UNCHANGED <<config, client>>

-----------------------------------------------------------------------------
(* The specifications.                                                     *)

\* The settings cache and the routing of messages: the plugins directory
\* and the reporting configuration are fixed.
\* The Guilds table is whatever earlier runs of the process left in it.
Init ==
    /\ InitClient
    /\ db \in Tables
    /\ prefix_on_mention \in BOOLEAN
    /\ report_errors = FALSE
    /\ owner_ids = {}
    /\ listdir = << <<"__init__", ".py">>, <<"a", ".py">> >>
    /\ failing = {}

\* Handlers that overlap: the messages are one mention and one command.
CacheEvents == MessageEvents({UserMention, "?ping"}, {"?ping"}) \cup LookupEvents \cup GuildEvents
\* Handlers one after the other: every message body.
SeqEvents == MessageEvents(Contents, Contents) \cup LookupEvents \cup GuildEvents

Handle(p) ==
    \/ OnMessage(p)
    \/ OnMessageEdit(p)
    \/ GetStringPrefix(p)
    \/ GetColour(p)
    \/ StatePrefixSend(p)
    \/ OnGuildAvailable(p)
    \/ GuildGetOrCreate(p)
    \/ GuildCacheGet(p)
    \/ GuildCacheAdd(p)

Next ==
    \/ StartLoad
    \/ StartConnect
    \/ \E p \in Procs : Dispatch(p, CacheEvents) \/ Handle(p)

Spec == Init /\ [][Next]_vars

\* The same, with no two handlers in flight at once: each runs to its end
\* before the next event is taken up.
NextSeq ==
    \/ StartLoad
    \/ StartConnect
    \/ \E p \in SeqProcs : Dispatch(p, SeqEvents) \/ Handle(p)

SpecSeq == Init /\ [][NextSeq]_vars

\* The error handlers: the reporting configuration varies, one plugin may
\* fail to load, the Guilds table is empty.
InitErr ==
    /\ InitClient
    /\ db = {}
    /\ prefix_on_mention = TRUE
    /\ report_errors \in BOOLEAN
    /\ owner_ids \in SUBSET Owners
    /\ listdir = << <<"__init__", ".py">>, <<"a", ".py">> >>
    /\ failing \in SUBSET {"a"}

NextErr ==
    \/ StartLoad
    \/ StartConnect
    \/ \E t \in {StartTask} \cup SeqProcs : ReportError(t) \/ ReportDeliver(t)
    \/ \E p \in SeqProcs :
         \/ Dispatch(p, ErrorEvents)
         \/ OnCommandError(p)
         \/ CommandErrorSend(p)
         \/ OnError(p)
         \/ RunEventExcept(p)

SpecErr == InitErr /\ [][NextErr]_vars

\* Startup: the plugins directory, the failing plugins and the reporting
\* configuration vary; once connected, lookups are served.
InitStart ==
    /\ InitClient
    /\ db = {}
    /\ prefix_on_mention = TRUE
    /\ report_errors \in BOOLEAN
    /\ owner_ids \in SUBSET Owners
    /\ listdir \in InjSeqs(DirEntries, MaxListing)
    /\ failing \in SUBSET Range(plugins(listdir))

NextStart ==
    \/ StartLoad
    \/ StartConnect
    \/ ReportError(StartTask)
    \/ ReportDeliver(StartTask)
    \/ \E p \in SeqProcs :
         \/ Dispatch(p, LookupEvents)
         \/ GetStringPrefix(p)
         \/ GetColour(p)

SpecStart == InitStart /\ [][NextStart]_vars

\* A task of message handlers beside a task of on_guild_available handlers:
\* every interleaving of the two kinds, no two handlers of one kind overlapping.
MessageProc == 1
GuildProc == 2
AvailableEvents == { e \in GuildEvents : e.op = "on_guild_available" }

NextMix ==
    \/ StartLoad
    \/ StartConnect
    \/ Dispatch(MessageProc, MessageEvents(Contents, {"?ping"}))
    \/ OnMessage(MessageProc)
    \/ OnMessageEdit(MessageProc)
    \/ GetStringPrefix(MessageProc)
    \/ GetColour(MessageProc)
    \/ StatePrefixSend(MessageProc)
    \/ Dispatch(GuildProc, AvailableEvents)
    \/ OnGuildAvailable(GuildProc)
    \/ GuildGetOrCreate(GuildProc)
    \/ GuildCacheGet(GuildProc)
    \/ GuildCacheAdd(GuildProc)

SpecMix == Init /\ [][NextMix]_vars

\* Shutdown: close() is called on a running client, with a guild handler in
\* flight that was taken up before the call.
NextClose ==
    \/ StartLoad
    \/ StartConnect
    \/ Close
    \/ SuperClose
    \/ CloseConnections
    \/ \E p \in SeqProcs :
         \/ pc[CloseTask] = "idle" /\ Dispatch(p, GuildEvents)
         \/ OnGuildAvailable(p)
         \/ GuildGetOrCreate(p)
         \/ GuildCacheGet(p)
         \/ GuildCacheAdd(p)

SpecClose == Init /\ [][NextClose]_vars

-----------------------------------------------------------------------------
(* Routing of messages.                                                    *)

IsMessage(p) == ev[p].op \in {"on_message", "on_message_edit"}
ExactMention(p) == loc[p].message \in {"<@7>", "<@!7>"}
OnePrefixResponse(p) ==
    /\ Len(obs[p].sent) = 1
    /\ obs[p].sent[1].kind = "state_prefix"

\* C1 as claimed: a finished on_message for an exact mention has sent one
\* state-prefix response and parsed nothing if announcements are enabled, and
\* has attempted command parsing if they are disabled; for any other body it
\* has attempted command parsing and sent nothing.
C1_Claimed ==
    \A p \in Procs :
        (IsMessage(p) /\ pc[p] = "done") =>
            IF ExactMention(p)
            THEN IF prefix_on_mention
                 THEN OnePrefixResponse(p) /\ obs[p].parsed = 0
                 ELSE obs[p].parsed = 1
            ELSE obs[p].parsed = 1 /\ obs[p].sent = <<>>

\* C1 amended: a finished on_message for an exact mention has sent one
\* state-prefix response if announcements are enabled and nothing if they are
\* disabled, and in neither case attempted command parsing; for any other
\* body it has attempted command parsing once and sent nothing.
C1_Routing ==
    \A p \in Procs :
        /\ (IsMessage(p) /\ pc[p] = "done") =>
              IF ExactMention(p)
              THEN /\ obs[p].parsed = 0
                   /\ IF prefix_on_mention THEN OnePrefixResponse(p) ELSE obs[p].sent = <<>>
              ELSE obs[p].parsed = 1 /\ obs[p].sent = <<>>
        /\ (IsMessage(p) /\ ExactMention(p)) => obs[p].parsed = 0
        /\ (IsMessage(p) /\ pc[p] # "on_message_edit" /\ ~ExactMention(p)) => obs[p].sent = <<>>

\* A nickname mention handled to the end with announcements disabled.
C1_Witness ==
    \E p \in Procs :
        /\ ev[p].op = "on_message" /\ pc[p] = "done"
        /\ loc[p].message = "<@!7>"
        /\ ~prefix_on_mention
        /\ obs[p].sent = <<>> /\ obs[p].parsed = 0

-----------------------------------------------------------------------------
(* Reads of the settings cache.                                            *)

IsLookup(p) == ev[p].op \in {"get_string_prefix", "get_colour"}
\* The step of task p is a call of get_string_prefix or of get_colour.
PrefixStep(p) ==
    pc[p] \in {"state_prefix", "process_commands", "get_string_prefix"} /\ pc'[p] # pc[p]
ColourStep(p) ==
    pc[p] \in {"sp_colour", "get_context", "get_colour"} /\ pc'[p] # pc[p]

\* C2 as claimed: once get_string_prefix or get_colour has returned for a
\* message of a guild, the cache holds an entry for that guild.
C2_Claimed ==
    \A p \in Procs :
        (IsLookup(p) /\ pc[p] = "done" /\ ev[p].guild # NoGuild) =>
            ev[p].guild \in DOMAIN cache

\* C2 amended: a call of get_string_prefix or get_colour leaves the cache as
\* it found it, so a guild without an entry still has none after any number
\* of calls.
C2_ReadsLeaveCache ==
    [][\A p \in Procs : (PrefixStep(p) \/ ColourStep(p)) => cache' = cache]_vars

\* A lookup has returned for a guild that still has no entry.
C2_Witness ==
    \E p \in Procs :
        /\ IsLookup(p) /\ pc[p] = "done"
        /\ ev[p].guild \in Guilds
        /\ obs[p].gets = 1
        /\ ev[p].guild \notin DOMAIN cache

\* C3: for a direct message, and for a message of a guild without a cache
\* entry, get_string_prefix returns the default prefix and get_colour the
\* colour named purple; for a direct message the cache is neither read nor
\* changed.
C3_Defaults ==
    [][\A p \in Procs :
          LET g == ev[p].guild
              miss == g = NoGuild \/ g \notin DOMAIN cache
          IN  /\ (PrefixStep(p) /\ miss) =>
                    /\ pc'[p] # "raised"
                    /\ loc'[p].prefix = command_prefix
              /\ (ColourStep(p) /\ miss) =>
                    /\ pc'[p] # "raised"
                    /\ loc'[p].colour = "0x71368a"
              /\ ((PrefixStep(p) \/ ColourStep(p)) /\ g = NoGuild) =>
                    /\ obs'[p].gets = obs[p].gets
                    /\ cache' = cache
    ]_vars

\* get_colour has returned purple for a guild without an entry.
C3_Witness ==
    \E p \in Procs :
        /\ ev[p].op = "get_colour" /\ pc[p] = "done"
        /\ ev[p].guild \in Guilds
        /\ ev[p].guild \notin DOMAIN cache
        /\ loc[p].colour = "0x71368a"

-----------------------------------------------------------------------------
(* Guild observation.                                                      *)

IsJoin(p) == ev[p].op \in {"on_guild_join", "on_guild_available"}
\* Task p runs on_guild_join or on_guild_available and has returned normally.
Observed(p, g) == IsJoin(p) /\ ev[p].guild = g /\ pc[p] = "done"
RowsOf(g) == { r \in db : r.snowflake = g }

\* C4: once on_guild_join or on_guild_available has completed for a guild
\* whose durable record is {prefix: p, colour: c}, the guild's cache entry is
\* {prefix: p, colour: c}, get_string_prefix returns p and get_colour returns
\* the colour named c, whatever lookups were made for the guild before.
C4_SeededReads ==
    [][\A q \in Procs, g \in Guilds :
          Observed(q, g) =>
              /\ Cardinality(RowsOf(g)) = 1
              /\ g \in DOMAIN cache
              /\ \A r \in RowsOf(g) :
                    /\ cache[g] = [prefix |-> r.prefix, colour |-> r.colour]
                    /\ \A p \in Procs :
                          /\ (PrefixStep(p) /\ ev[p].guild = g) =>
                                pc'[p] # "raised" /\ loc'[p].prefix = r.prefix
                          /\ (ColourStep(p) /\ ev[p].guild = g) =>
                                pc'[p] # "raised" /\ loc'[p].colour = colours[r.colour]
    ]_vars

\* A guild with a record other than the defaults has been observed, and a
\* lookup has then returned its prefix.
C4_Witness ==
    \E p, q \in Procs, g \in Guilds :
        /\ Observed(q, g)
        /\ [snowflake |-> g, prefix |-> "!", colour |-> "blue"] \in db
        /\ ev[p].op = "get_string_prefix" /\ ev[p].guild = g /\ pc[p] = "done"
        /\ loc[p].prefix = "!"

\* C5: with no two handlers overlapping, on_guild_join and
\* on_guild_available never raise; when one has completed for a guild there
\* is exactly one durable record and a cache entry for the guild; and a run
\* that finds both in place changes neither.
C5_SequentialIdempotence ==
    [][\A p \in SeqProcs :
          LET g == ev[p].guild
          IN  IsJoin(p) =>
                /\ pc'[p] # "raised"
                /\ (pc'[p] = "done" /\ ev'[p] = ev[p]) =>
                      /\ Cardinality({ r \in db' : r.snowflake = g }) = 1
                      /\ g \in DOMAIN cache'
                /\ (RowsOf(g) # {} /\ g \in DOMAIN cache /\ ev'[p] = ev[p]) =>
                      /\ db' = db
                      /\ cache' = cache
    ]_vars

\* A second run has completed for a guild: it created no record and added
\* no cache entry.
C5_Witness ==
    \E p \in SeqProcs :
        /\ ev[p].op = "on_guild_available" /\ pc[p] = "done"
        /\ ~loc[p].created
        /\ obs[p].gets = 1 /\ obs[p].adds = 0
        /\ Cardinality(RowsOf(ev[p].guild)) = 1
        /\ ev[p].guild \in DOMAIN cache

\* C6 as claimed: no on_guild_join or on_guild_available handler raises,
\* however the handlers for a guild interleave, and when all of them have
\* completed the guild's cache entry equals its durable record.
C6_Claimed ==
    \A p \in Procs :
        IsJoin(p) =>
            /\ pc[p] # "raised"
            /\ pc[p] = "done" =>
                  /\ ev[p].guild \in DOMAIN cache
                  /\ \E r \in RowsOf(ev[p].guild) :
                        cache[ev[p].guild] = [prefix |-> r.prefix, colour |-> r.colour]

-----------------------------------------------------------------------------
(* Command errors.                                                         *)

IsCommandError(p) == ev[p].op = "on_command_error"

\* C7 as claimed: on_command_error for an invocation error does not raise,
\* calls report_error exactly once, whatever becomes of the delivery to the
\* owners, and has sent exactly one generic failure message when it returns.
C7_Claimed ==
    \A p \in Procs :
        (IsCommandError(p) /\ ev[p].exc = "CommandInvokeError") =>
            /\ pc[p] # "raised"
            /\ Len(obs[p].reports) <= 1
            /\ pc[p] = "done" =>
                  /\ Len(obs[p].reports) = 1
                  /\ Len(obs[p].sent) = 1
                  /\ obs[p].sent[1].kind = "unhandled_error"

\* C8: on_command_error for a command-not-found or a check failure sends
\* no message, calls report_error never, and returns.
C8_Silent ==
    \A p \in Procs :
        (IsCommandError(p) /\ ev[p].exc \in {"CommandNotFound", "CheckFailure", "NotOwner"}) =>
            /\ obs[p].sent = <<>>
            /\ obs[p].reports = <<>>
            /\ obs[p].dms = <<>>
            /\ pc[p] \in {"on_command_error", "done"}

\* on_command_error has returned for a subclass of CheckFailure.
C8_Witness ==
    \E p \in Procs :
        /\ IsCommandError(p) /\ ev[p].exc = "NotOwner" /\ pc[p] = "done"
        /\ obs[p].sent = <<>> /\ obs[p].reports = <<>>

-----------------------------------------------------------------------------
(* Startup.                                                                *)

\* The elements of s that are in S, in the order of s.
Only(s, S) == SelectSeq(s, LAMBDA x : x \in S)
StartSteps == StartLoad \/ StartConnect \/ ReportError(StartTask) \/ ReportDeliver(StartTask)

\* C9: start() does not raise; it attempts the candidates in order, each
\* once; every attempted candidate whose load does not raise is loaded;
\* every one whose load raises has been handed to report_error once; start()
\* can always go on until the gateway is open, and then every candidate has
\* been attempted.
C9_PluginIsolation ==
    LET candidates == plugins(listdir)
        n == Len(attempted)
    IN  /\ pc[StartTask] # "raised"
        /\ n <= Len(candidates)
        /\ attempted = SubSeq(candidates, 1, n)
        /\ extensions = Range(attempted) \ failing
        /\ obs[StartTask].reports = Only(attempted, failing)
        /\ connected => n = Len(candidates)
        /\ ~connected => ENABLED StartSteps

\* Three candidates, the second failing to load with owners to report to:
\* the first and the third are loaded and the gateway is open.
C9_Witness ==
    LET candidates == plugins(listdir)
    IN  /\ Len(candidates) = 3
        /\ failing = {candidates[2]}
        /\ report_errors /\ owner_ids # {}
        /\ connected
        /\ extensions = {candidates[1], candidates[3]}
        /\ obs[StartTask].reports = <<candidates[2]>>
        /\ obs[StartTask].logged = <<candidates[2]>>

\* C10: the gateway is open, and an event is being handled, only when
\* start() has attempted every candidate and finished every error report.
C10_PluginsBeforeGateway ==
    (connected \/ \E p \in Procs : pc[p] # "idle") =>
        /\ connected
        /\ pc[StartTask] = "running"
        /\ Len(attempted) = Len(plugins(listdir))
        /\ obs[StartTask].logged = Only(plugins(listdir), failing)

\* An event has been handled after a startup in which a plugin failed.
C10_Witness ==
    /\ \E p \in Procs : pc[p] = "done"
    /\ Len(attempted) = 3
    /\ failing # {}
    /\ report_errors /\ owner_ids # {}

-----------------------------------------------------------------------------
(* Shutdown.                                                               *)

\* C11: the storage connections are released only by a close() whose
\* super().close() has returned: whenever they are released the gateway
\* connection is closed, and the step that releases them is taken with the
\* gateway connection already closed.
C11_ShutdownOrder ==
    /\ [](~connections_open => (~connected /\ pc[CloseTask] = "closed"))
    /\ [][connections_open' # connections_open =>
             (~connected /\ pc[CloseTask] = "close_connections")]_vars

\* close() has run to its end.
C11_Witness ==
    /\ pc[CloseTask] = "closed"
    /\ ~connected
    /\ ~connections_open

\* C12 as claimed: when the storage connections are released no handler
\* taken up before close() began is still in flight, and no handler has run
\* its storage access on released connections.
C12_Claimed ==
    ~connections_open =>
        \A p \in Procs :
            /\ pc[p] \in {"idle", "done", "raised"}
            /\ loc[p].raised # "OperationalError"

-----------------------------------------------------------------------------
(* The reporting path.                                                     *)

\* The entries of a task's owner loop that are for one owner id.
DeliveryRounds(t, owner_id) ==
    { i \in DOMAIN obs[t].dms : obs[t].dms[i].owner_id = owner_id }
\* report_error has been called by task t and has ended, by returning or by
\* raising.
ReportEnded(t) ==
    /\ obs[t].reports # <<>>
    /\ pc[t] \notin {"report_error", "re_owners"}

\* C13 as claimed: every exception handed to report_error is logged; with
\* reporting disabled no owner is resolved or messaged; with reporting
\* enabled, when report_error has ended every configured owner id has had
\* exactly one round of the loop, in which it was skipped if it did not
\* resolve and attempted once if it did; no id ever has a second round.
C13_Claimed ==
    \A t \in Tasks :
        /\ pc[t] # "report_error" => obs[t].logged = obs[t].reports
        /\ ~report_errors => obs[t].dms = <<>>
        /\ \A o \in Owners : Cardinality(DeliveryRounds(t, o)) <= 1
        /\ (report_errors /\ ReportEnded(t)) =>
              \A o \in owner_ids : Cardinality(DeliveryRounds(t, o)) = 1

\* C14 as claimed: no task that has called report_error ends with an
\* exception: report_error returns to start(), on_command_error and on_error
\* whatever becomes of the owner resolution and of each delivery.
C14_Claimed ==
    \A t \in Tasks : obs[t].reports # <<>> => pc[t] # "raised"

-----------------------------------------------------------------------------
(* Edited messages.                                                        *)

\* The calls on_message makes for a message with this body in this guild,
\* with the cache as it is.
MessageCalls(content, guild) ==
    [NoCalls EXCEPT
        !.sent = IF route(content) = "state_prefix"
                 THEN << [kind |-> "state_prefix",
                          prefix |-> get_string_prefix(cache, guild).value,
                          colour |-> get_colour(cache, guild).value] >>
                 ELSE <<>>,
        !.parsed = IF route(content) = "process_commands" THEN 1 ELSE 0,
        !.gets = IF route(content) = "done"
                 THEN 0
                 ELSE get_string_prefix(cache, guild).gets + get_colour(cache, guild).gets]

\* C15: a finished on_message_edit(before, after) has made exactly the calls
\* of on_message(after), whatever before is: one command resolution when
\* after is not a bare mention, also when before was one that on_message
\* resolved already; and no message handler leaves anything in the client
\* by which a later handler could tell that a message was processed.
C15_EditsAsMessages ==
    /\ [](\A p \in SeqProcs :
            IsMessage(p) =>
                /\ pc[p] # "raised"
                /\ pc[p] = "done" => obs[p] = MessageCalls(ev[p].content, ev[p].guild))
    /\ [][\A p \in SeqProcs :
              /\ (IsMessage(p) /\ ev'[p] = ev[p]) => client' = client
              /\ (pc[p] = "on_message_edit" /\ pc'[p] # pc[p]) =>
                    /\ pc'[p] = "on_message"
                    /\ loc'[p] = [NoLocals EXCEPT !.message = ev[p].content]
                    /\ obs'[p] = NoCalls
       ]_vars

\* The edit of one command into another has been handled: the edited body
\* went through command resolution.
C15_Witness ==
    \E p \in SeqProcs :
        /\ ev[p].op = "on_message_edit" /\ pc[p] = "done"
        /\ ev[p].before = "?ping" /\ ev[p].content = "<@7> ping"
        /\ ev[p].guild \in Guilds
        /\ loc[p].message = "<@7> ping"
        /\ obs[p].parsed = 1 /\ obs[p].gets = 2 /\ obs[p].sent = <<>>

-----------------------------------------------------------------------------
(* Errors of event handlers and the remaining command errors.              *)

\* C16: an on_error call hands its exception to report_error once, as soon
\* as it runs, and never again; it sends no message to a channel, whether
\* report_error then returns or not.
C16_EventErrorsReported ==
    \A p \in SeqProcs :
        ev[p].op = "on_error" =>
            /\ obs[p].sent = <<>>
            /\ obs[p].reports = IF pc[p] = "on_error" THEN <<>> ELSE <<ev[p].exc>>
            /\ pc[p] \notin {"on_error", "report_error"} => obs[p].logged = <<ev[p].exc>>

\* on_error has returned after its report was delivered to an owner.
C16_Witness ==
    \E p \in SeqProcs :
        /\ ev[p].op = "on_error" /\ pc[p] = "done"
        /\ obs[p].reports = <<"KeyError">>
        /\ \E i \in DOMAIN obs[p].dms : obs[p].dms[i].outcome = "delivered"
        /\ obs[p].sent = <<>>

\* C17: on_command_error for an error whose class name is in the table of
\* handled errors never calls report_error and, when it has returned, has
\* sent exactly one message, the one of that class's formatter, in red; for
\* an error that is neither command-not-found, a check failure, an
\* invocation error nor in the table it sends nothing and reports nothing;
\* for every error it sends at most one message and reports at most once.
C17_RemainingErrors ==
    \A p \in SeqProcs :
        IsCommandError(p) =>
            LET exc == ev[p].exc
                other == /\ ~isinstance(exc, "CommandNotFound")
                         /\ ~isinstance(exc, "CheckFailure")
                         /\ ~isinstance(exc, "CommandInvokeError")
                         /\ exc \notin handled_errors
            IN  /\ Len(obs[p].sent) <= 1
                /\ Len(obs[p].reports) <= 1
                /\ exc \in handled_errors =>
                      /\ obs[p].reports = <<>>
                      /\ obs[p].dms = <<>>
                      /\ pc[p] \in {"on_command_error", "ce_send", "done"}
                      /\ pc[p] = "done" =>
                            obs[p].sent = << [kind |-> "handled_error", prefix |-> exc,
                                              colour |-> "0xe74c3c"] >>
                /\ other =>
                      /\ obs[p].sent = <<>>
                      /\ obs[p].reports = <<>>
                      /\ pc[p] \in {"on_command_error", "done"}

\* on_command_error has answered an error of the table.
C17_Witness ==
    \E p \in SeqProcs :
        /\ IsCommandError(p) /\ pc[p] = "done"
        /\ ev[p].exc = "MissingRequiredArgument"
        /\ Len(obs[p].sent) = 1
        /\ obs[p].sent[1].kind = "handled_error"
        /\ obs[p].reports = <<>>

-----------------------------------------------------------------------------
(* The cache beside the Guilds table.                                      *)

\* The cache entry a durable record seeds.
EntryOf(r) == [prefix |-> r.prefix, colour |-> r.colour]

\* The two tasks run a message handler and an on_guild_available handler for
\* one guild.
Together ==
    /\ IsMessage(MessageProc)
    /\ ev[GuildProc].op = "on_guild_available"
    /\ ev[MessageProc].guild = ev[GuildProc].guild
\* The guild of task p's event has a cache entry.
Hit(p) == ev[p].guild \in DOMAIN cache

\* C18: with an on_message handler and an on_guild_available handler for
\* one guild interleaved in any way, neither raises; a read of the cache by
\* the message handler returns the default when the guild has no entry and
\* the value of the guild's durable record when it has one; and when both
\* have completed the guild's entry equals its durable record.
C18_MessageBesideAvailable ==
    /\ [](Together =>
            /\ pc[MessageProc] # "raised" /\ pc[GuildProc] # "raised"
            /\ (pc[MessageProc] = "done" /\ pc[GuildProc] = "done") =>
                  /\ Hit(MessageProc)
                  /\ Cardinality(RowsOf(ev[GuildProc].guild)) = 1
                  /\ \A r \in RowsOf(ev[GuildProc].guild) :
                        cache[ev[GuildProc].guild] = EntryOf(r))
    /\ [][Together =>
             /\ PrefixStep(MessageProc) =>
                   IF Hit(MessageProc)
                   THEN \E r \in RowsOf(ev[GuildProc].guild) :
                          loc'[MessageProc].prefix = r.prefix
                   ELSE loc'[MessageProc].prefix = command_prefix
             /\ ColourStep(MessageProc) =>
                   IF Hit(MessageProc)
                   THEN \E r \in RowsOf(ev[GuildProc].guild) :
                          loc'[MessageProc].colour = colours[r.colour]
                   ELSE loc'[MessageProc].colour = colours["purple"]
       ]_vars

\* A mention was answered with the default prefix, read before the guild's
\* entry was seeded, and the record's colour, read after; both handlers have
\* completed.
C18_Witness ==
    /\ ev[MessageProc].op = "on_message" /\ pc[MessageProc] = "done"
    /\ ev[GuildProc].op = "on_guild_available" /\ pc[GuildProc] = "done"
    /\ ev[MessageProc].guild = ev[GuildProc].guild
    /\ obs[GuildProc].adds = 1
    /\ obs[MessageProc].sent =
          << [kind |-> "state_prefix", prefix |-> "?", colour |-> "0x3498db"] >>
    /\ [snowflake |-> ev[GuildProc].guild, prefix |-> "!", colour |-> "blue"] \in db

\* C19: every guild with a cache entry has a durable record, and the entry
\* holds that record's prefix and colour; no step of any handler changes or
\* removes an entry that exists.
C19_CacheAgreesWithTable ==
    /\ [](\A g \in DOMAIN cache :
            /\ Cardinality(RowsOf(g)) = 1
            /\ \A r \in RowsOf(g) : cache[g] = EntryOf(r))
    /\ [][\A g \in DOMAIN cache : g \in DOMAIN cache' /\ cache'[g] = cache[g]]_vars

\* A guild whose record is not the defaults has an entry, seeded by one
\* handler while another handler for the guild raised on its own seeding,
\* and a message of the guild has been handled since.
C19_Witness ==
    \E p, q \in Procs, g \in Guilds :
        /\ g \in DOMAIN cache
        /\ cache[g] = [prefix |-> "!", colour |-> "blue"]
        /\ IsJoin(q) /\ ev[q].guild = g /\ loc[q].raised = "ValueError"
        /\ IsMessage(p) /\ ev[p].guild = g /\ pc[p] = "done" /\ obs[p].gets = 2

\* C20: every cache entry has both fields, prefix and colour, and no call
\* of get_string_prefix or get_colour fails for a missing field.
C20_EntriesComplete ==
    /\ \A g \in DOMAIN cache : DOMAIN cache[g] = {"prefix", "colour"}
    /\ \A p \in Procs : loc[p].raised # "KeyError"

\* get_colour has returned for a guild that first was looked up without an
\* entry and then observed.
C20_Witness ==
    \E p, q \in Procs, g \in Guilds :
        /\ ev[q].op = "get_string_prefix" /\ ev[q].guild = g /\ pc[q] = "done"
        /\ loc[q].prefix = "?"
        /\ g \in DOMAIN cache
        /\ cache[g].prefix = "!"
        /\ ev[p].op = "get_colour" /\ ev[p].guild = g /\ pc[p] = "done"
        /\ loc[p].colour = colours[cache[g].colour]

====
